---------------------------- MODULE Spec2Model ----------------------------
(***************************************************************************)
(* A model of lpm.py: the interpreter resolver _resolve_python_executable  *)
(* and the wheel builder build_python_package_from_pip.                    *)
(*                                                                         *)
(* A Python str is a sequence of one-character strings, so that basename,  *)
(* startswith, repr, join and the pathlib normalisation are computed and   *)
(* not assumed.  The empty str is << >>.                                   *)
(***************************************************************************)
EXTENDS Integers, Sequences, FiniteSets

(***************************************************************************)
(* Bounds of the model.                                                    *)
(***************************************************************************)
\* longest PATH (number of directories) the environment is given
MaxPathLen == 2
\* longest extra_pip_args list a caller passes
MaxExtra == 2

(***************************************************************************)
(* Values.                                                                 *)
(***************************************************************************)
\* Python's None: a one-element sequence whose element is no character, so
\* that it differs from every str and stays comparable with one.
None == <<"None">>

\* Python truthiness of an Optional[str] / Optional[list]: None and the empty
\* value are falsy.
Truthy(x) == x # None /\ x # << >>

\* directories that may be listed on PATH
BinDir == <<"/", "b", "i", "n">>
OptDir == <<"/", "o", "p", "t">>
Dirs == {BinDir, OptDir}

\* file names
Python3Name == <<"p", "y", "t", "h", "o", "n", "3">>
PythonName == <<"p", "y", "t", "h", "o", "n">>
\* a PyInstaller one-file launcher, and one whose name merely contains "python"
LpmName == <<"l", "p", "m">>
LpmPyName == <<"l", "p", "m", "-", "p", "y", "t", "h", "o", "n">>

\* os.path.join(dir, name) for a directory without trailing slash
PathJoin(dir, name) == dir \o <<"/">> \o name

BinPython3 == PathJoin(BinDir, Python3Name)
BinPython == PathJoin(BinDir, PythonName)
OptPython3 == PathJoin(OptDir, Python3Name)
OptLpm == PathJoin(OptDir, LpmName)
OptLpmPy == PathJoin(OptDir, LpmPyName)

\* the files the modelled file systems may hold
AllFiles == {BinPython3, BinPython, OptPython3, OptLpm, OptLpmPy}

\* all sequences over S of length at most n
SeqsUpTo(S, n) == UNION {[1..k -> S] : k \in 0..n}

(***************************************************************************)
(* String helpers of the resolver.                                         *)
(***************************************************************************)
\* index of the last "/" of p, 0 if there is none
LastSlash(p) ==
    LET idx == {i \in 1..Len(p) : p[i] = "/"}
    IN IF idx = {} THEN 0 ELSE CHOOSE i \in idx : \A j \in idx : j <= i

\* os.path.basename(p): what follows the last "/"
Basename(p) == SubSeq(p, LastSlash(p) + 1, Len(p))

\* mutant of StartsWith: tests that the text occurs anywhere in s
ContainsText(s, prefix) ==
    \E i \in 1..(Len(s) - Len(prefix) + 1) :
        SubSeq(s, i, i + Len(prefix) - 1) = prefix

\* str.startswith
StartsWith(s, prefix) ==
    /\ Len(s) >= Len(prefix)
    /\ SubSeq(s, 1, Len(prefix)) = prefix

\* repr(c) of a candidate: None prints as None, a str in single quotes
Repr(c) ==
    IF c = None THEN <<"N", "o", "n", "e">> ELSE <<"'">> \o c \o <<"'">>

RECURSIVE JoinStrs(_, _)
\* sep.join(strs)
JoinStrs(sep, strs) ==
    IF strs = << >> THEN << >>
    ELSE IF Len(strs) = 1 THEN strs[1]
    ELSE strs[1] \o sep \o JoinStrs(sep, Tail(strs))

CommaSpace == <<",", " ">>

(***************************************************************************)
(* State.                                                                  *)
(***************************************************************************)
VARIABLES
    \* the environment
    fs,              \* the files that exist (os.path.exists)
    searchPath,      \* the directories of PATH, in order
    frozen,          \* getattr(sys, "frozen", False)
    sysExecutable,   \* sys.executable
    dirs,            \* the directories that exist below the working directory
    regFiles,        \* the regular files that exist below the working directory
    writable,        \* whether the process may create directories there
    \* _resolve_python_executable
    rpc,             \* position in the resolver
    explicit,        \* its argument
    executable,      \* local: executable
    candidates,      \* local: candidates
    idx,             \* local: position of the for loop in candidates
    probes,          \* the file system queries made so far, in order
    rresult,         \* the value returned, None before
    rmessage,        \* the message of the RuntimeError raised, None before
    \* build_python_package_from_pip
    bpc,             \* position in the builder
    package, destination, python_executable, extra_pip_args,  \* its arguments
    interpreter,     \* local: interpreter
    cmd,             \* local: cmd
    runs,            \* the commands handed to subprocess.run, in order
    exitStatus,      \* the exit status of the tool, -1 before it exits
    bresult,         \* the value returned, None before
    berror           \* the exception that left the builder, "" for none

envVars == <<fs, searchPath, frozen, sysExecutable, dirs, regFiles, writable>>
resolveVars == <<rpc, explicit, executable, candidates, idx, probes, rresult, rmessage>>
buildVars == <<bpc, package, destination, python_executable, extra_pip_args,
               interpreter, cmd, runs, exitStatus, bresult, berror>>
vars == <<envVars, resolveVars, buildVars>>

(***************************************************************************)
(* The library calls of the resolver.                                      *)
(***************************************************************************)
\* os.path.exists(p).  The program is single-threaded and nothing else
\* is modelled to touch the file system, so fs is the same at every query of
\* one call.
Exists(p) == p \in fs

RECURSIVE WhichFrom(_, _)
\* shutil.which(name) over the directories left to search: the first
\* directory of PATH that holds the name wins, None if none does
WhichFrom(name, path) ==
    IF path = << >> THEN None
    ELSE IF Exists(PathJoin(Head(path), name)) THEN PathJoin(Head(path), name)
    ELSE WhichFrom(name, Tail(path))

Which(name) == WhichFrom(name, searchPath)

(***************************************************************************)
(* _resolve_python_executable                                              *)
(***************************************************************************)
\* mutant of IsFrozenLauncher: the frozen flag is not consulted
IsFrozenLauncher_NoFrozen(candidate) ==
    /\ candidate = executable
    /\ ~StartsWith(Basename(candidate), PythonName)

\* mutant of IsFrozenLauncher: the launcher check is dropped
IsFrozenLauncher_Never(candidate) == FALSE

\* the condition of the second continue of the loop
IsFrozenLauncher(candidate) ==
    /\ candidate = executable
    /\ frozen
    /\ ~StartsWith(Basename(candidate), PythonName)

\* the condition of the first continue of the loop
Skipped(candidate) == ~Truthy(candidate) \/ ~Exists(candidate)

\* mutant of ResolveExplicitReturn: the explicit path is checked for
\* existence, and rejected when it does not exist
ResolveExplicitReturn_Validated ==
    /\ rpc = "entered"
    /\ Truthy(explicit)
    /\ probes' = Append(probes, <<"exists", explicit>>)
    /\ IF Exists(explicit)
       THEN /\ rpc' = "returned"
            /\ rresult' = explicit
            /\ rmessage' = rmessage
       ELSE /\ rpc' = "raised"
            /\ rresult' = rresult
            /\ rmessage' = [text |-> "", searched |-> Repr(explicit)]
    /\ UNCHANGED <<explicit, executable, candidates, idx>>
    /\ UNCHANGED <<envVars, buildVars>>

\* if explicit: return explicit
ResolveExplicitReturn ==
    /\ rpc = "entered"
    /\ Truthy(explicit)
    /\ rpc' = "returned"
    /\ rresult' = explicit
    /\ UNCHANGED <<explicit, executable, candidates, idx, probes, rmessage>>
    /\ UNCHANGED <<envVars, buildVars>>

\* mutant of ResolveGather: sys.executable is listed whether or not it exists
ResolveGather_AlwaysSelf ==
    /\ rpc = "entered"
    /\ ~Truthy(explicit)
    /\ executable' = sysExecutable
    /\ candidates' = <<sysExecutable, Which(Python3Name), Which(PythonName)>>
    /\ probes' = probes \o <<<<"which", Python3Name>>, <<"which", PythonName>>>>
    /\ idx' = 1
    /\ rpc' = "loop"
    /\ UNCHANGED <<explicit, rresult, rmessage>>
    /\ UNCHANGED <<envVars, buildVars>>

\* mutant of ResolveGather: python is looked up before python3
ResolveGather_PythonFirst ==
    /\ rpc = "entered"
    /\ ~Truthy(explicit)
    /\ executable' = sysExecutable
    /\ LET self == IF Truthy(sysExecutable) /\ Exists(sysExecutable)
                   THEN <<sysExecutable>> ELSE << >>
       IN candidates' = self \o <<Which(PythonName), Which(Python3Name)>>
    /\ probes' = probes \o <<<<"which", PythonName>>, <<"which", Python3Name>>>>
    /\ idx' = 1
    /\ rpc' = "loop"
    /\ UNCHANGED <<explicit, rresult, rmessage>>
    /\ UNCHANGED <<envVars, buildVars>>

\* the candidate list: sys.executable if it exists, then the two PATH lookups
ResolveGather ==
    /\ rpc = "entered"
    /\ ~Truthy(explicit)
    /\ executable' = sysExecutable
    /\ LET self == IF Truthy(sysExecutable) /\ Exists(sysExecutable)
                   THEN <<sysExecutable>> ELSE << >>
       IN candidates' = self \o <<Which(Python3Name), Which(PythonName)>>
    /\ probes' = probes
                 \o (IF Truthy(sysExecutable)
                     THEN <<<<"exists", sysExecutable>>>> ELSE << >>)
                 \o <<<<"which", Python3Name>>, <<"which", PythonName>>>>
    /\ idx' = 1
    /\ rpc' = "loop"
    /\ UNCHANGED <<explicit, rresult, rmessage>>
    /\ UNCHANGED <<envVars, buildVars>>

\* the probes one evaluation of the loop's conditions makes
LoopProbes(candidate) ==
    IF Truthy(candidate) THEN <<<<"exists", candidate>>>> ELSE << >>

\* one iteration of the loop that ends in a continue
ResolveLoopSkip ==
    /\ rpc = "loop"
    /\ idx <= Len(candidates)
    /\ Skipped(candidates[idx]) \/ IsFrozenLauncher(candidates[idx])
    /\ idx' = idx + 1
    /\ probes' = probes \o LoopProbes(candidates[idx])
    /\ UNCHANGED <<rpc, explicit, executable, candidates, rresult, rmessage>>
    /\ UNCHANGED <<envVars, buildVars>>

\* the iteration of the loop that returns its candidate
ResolveLoopReturn ==
    /\ rpc = "loop"
    /\ idx <= Len(candidates)
    /\ ~Skipped(candidates[idx])
    /\ ~IsFrozenLauncher(candidates[idx])
    /\ rresult' = candidates[idx]
    /\ probes' = probes \o LoopProbes(candidates[idx])
    /\ rpc' = "returned"
    /\ UNCHANGED <<explicit, executable, candidates, idx, rmessage>>
    /\ UNCHANGED <<envVars, buildVars>>

\* the text before the list of candidates in the error message
TriedPrefix == "Unable to determine a Python interpreter; tried the following candidates: "

\* the message of the RuntimeError: the fixed text, then searched
ErrorMessage(cands) ==
    [text |-> TriedPrefix,
     searched |-> JoinStrs(CommaSpace, [i \in 1..Len(cands) |-> Repr(cands[i])])]

\* the loop is exhausted: raise RuntimeError
ResolveRaise ==
    /\ rpc = "loop"
    /\ idx > Len(candidates)
    /\ rmessage' = ErrorMessage(candidates)
    /\ rpc' = "raised"
    /\ UNCHANGED <<explicit, executable, candidates, idx, probes, rresult>>
    /\ UNCHANGED <<envVars, buildVars>>

\* the values a caller passes as explicit
ExplicitInputs == {None, << >>, BinPython3, OptLpm}

\* a call of _resolve_python_executable(e)
ResolveCall ==
    /\ rpc = "idle"
    /\ \E e \in ExplicitInputs : explicit' = e
    /\ rpc' = "entered"
    /\ UNCHANGED <<executable, candidates, idx, probes, rresult, rmessage>>
    /\ UNCHANGED <<envVars, buildVars>>

ResolveSteps ==
    \/ ResolveExplicitReturn
    \/ ResolveGather
    \/ ResolveLoopSkip
    \/ ResolveLoopReturn
    \/ ResolveRaise

ResolveLocalsInit ==
    /\ rpc = "idle"
    /\ explicit = None
    /\ executable = None
    /\ candidates = << >>
    /\ idx = 0
    /\ probes = << >>
    /\ rresult = None
    /\ rmessage = None

BuildLocalsInit ==
    /\ bpc = "idle"
    /\ package = None
    /\ destination = None
    /\ python_executable = None
    /\ extra_pip_args = None
    /\ interpreter = None
    /\ cmd = << >>
    /\ runs = << >>
    /\ exitStatus = -1
    /\ bresult = None
    /\ berror = ""

\* the resolver called on its own, in every environment of the model
InitResolve ==
    /\ fs \in SUBSET AllFiles
    /\ searchPath \in SeqsUpTo(Dirs, MaxPathLen)
    /\ frozen \in BOOLEAN
    /\ sysExecutable \in {None, << >>} \cup AllFiles
    /\ dirs = {}
    /\ regFiles = {}
    /\ writable = TRUE
    /\ ResolveLocalsInit
    /\ BuildLocalsInit

NextResolve == ResolveCall \/ ResolveSteps

SpecResolve == InitResolve /\ [][NextResolve]_vars

(***************************************************************************)
(* build_python_package_from_pip                                           *)
(***************************************************************************)
\* a list argument that is None (an Optional[Sequence[str]]): a list whose
\* one element is no str, so that it stays comparable with lists of str
NoArgs == <<None>>

\* Python truthiness of an Optional[Sequence[str]]
TruthyArgs(xs) == xs # NoArgs /\ xs # << >>

RECURSIVE SplitOn(_, _, _)
\* s.split(sep) for a one-character sep; cur is the piece being read
SplitOn(s, sep, cur) ==
    IF s = << >> THEN <<cur>>
    ELSE IF Head(s) = sep THEN <<cur>> \o SplitOn(Tail(s), sep, << >>)
    ELSE SplitOn(Tail(s), sep, Append(cur, Head(s)))

\* the components pathlib keeps of a POSIX path: empty ones and "." are dropped
PathParts(s) ==
    SelectSeq(SplitOn(s, "/", << >>), LAMBDA part : part # << >> /\ part # <<".">>)

\* the root pathlib keeps of a POSIX path
PathRoot(s) == IF s # << >> /\ Head(s) = "/" THEN <<"/">> ELSE << >>

\* str(Path(s)): the root, then the components joined by "/"; "." if neither
StrPath(s) ==
    IF PathRoot(s) = << >> /\ PathParts(s) = << >> THEN <<".">>
    ELSE PathRoot(s) \o JoinStrs(<<"/">>, PathParts(s))

\* all but the last element of a non-empty sequence
Front(xs) == SubSeq(xs, 1, Len(xs) - 1)

RECURSIVE MkdirParents_NoParents(_, _)
\* mutant of MkdirParents: parents=False, a missing parent is an error
MkdirParents_NoParents(parts, D) ==
    IF parts = << >> \/ parts \in D THEN [error |-> "", dirs |-> D]
    ELSE IF parts \in regFiles THEN [error |-> "FileExistsError", dirs |-> D]
    ELSE IF Front(parts) = << >> \/ Front(parts) \in D
         THEN IF writable THEN [error |-> "", dirs |-> D \cup {parts}]
              ELSE [error |-> "PermissionError", dirs |-> D]
    ELSE IF Front(parts) \in regFiles THEN [error |-> "NotADirectoryError", dirs |-> D]
    ELSE [error |-> "FileNotFoundError", dirs |-> D]

RECURSIVE MkdirParents_NotExistOk(_, _)
\* mutant of MkdirParents: exist_ok=False, an existing directory is an error
MkdirParents_NotExistOk(parts, D) ==
    IF parts = << >> \/ parts \in D THEN [error |-> "FileExistsError", dirs |-> D]
    ELSE IF parts \in regFiles THEN [error |-> "FileExistsError", dirs |-> D]
    ELSE IF Front(parts) = << >> \/ Front(parts) \in D
         THEN IF writable THEN [error |-> "", dirs |-> D \cup {parts}]
              ELSE [error |-> "PermissionError", dirs |-> D]
    ELSE IF Front(parts) \in regFiles THEN [error |-> "NotADirectoryError", dirs |-> D]
    ELSE LET up == MkdirParents_NotExistOk(Front(parts), D)
         IN IF up.error # "" THEN up
            ELSE [error |-> "", dirs |-> up.dirs \cup {parts}]

RECURSIVE MkdirParents(_, _)
\* Path.mkdir(parents=True, exist_ok=True) of the directory with these
\* components (relative to the working directory), given the directories D:
\* the exception raised ("" for none) and the directories afterwards.
\* os.mkdir fails on a path that exists, under a parent that is a regular
\* file or is missing, or where the process may not write; a missing parent
\* is made first, and an existing directory is accepted.
MkdirParents(parts, D) ==
    IF parts = << >> \/ parts \in D THEN [error |-> "", dirs |-> D]
    ELSE IF parts \in regFiles THEN [error |-> "FileExistsError", dirs |-> D]
    ELSE IF Front(parts) = << >> \/ Front(parts) \in D
         THEN IF writable THEN [error |-> "", dirs |-> D \cup {parts}]
              ELSE [error |-> "PermissionError", dirs |-> D]
    ELSE IF Front(parts) \in regFiles THEN [error |-> "NotADirectoryError", dirs |-> D]
    ELSE LET up == MkdirParents(Front(parts), D)
         IN IF up.error # "" THEN up
            ELSE [error |-> "", dirs |-> up.dirs \cup {parts}]

\* the fixed tokens of the command
DashM == <<"-", "m">>
Pip == <<"p", "i", "p">>
Wheel == <<"w", "h", "e", "e", "l">>
NoDeps == <<"-", "-", "n", "o", "-", "d", "e", "p", "s">>
DashW == <<"-", "w">>

\* mutant of BuildCommand: the extra arguments come before the fixed ones
BuildCommand_ExtraFirst(interp, pkg, dest, extra) ==
    <<interp, DashM, Pip, Wheel>>
    \o (IF TruthyArgs(extra) THEN extra ELSE << >>)
    \o <<pkg, NoDeps, DashW, StrPath(dest)>>

\* cmd: the fixed tokens, then the extra arguments if there are any
BuildCommand(interp, pkg, dest, extra) ==
    <<interp, DashM, Pip, Wheel, pkg, NoDeps, DashW, StrPath(dest)>>
    \o (IF TruthyArgs(extra) THEN extra ELSE << >>)

\* what a caller passes
Requests == <<"r", "e", "q", "u", "e", "s", "t", "s">>
Six == <<"s", "i", "x">>
Packages == {Requests, Six}
Out == <<"o", "u", "t">>
Dir == <<"d", "i", "r">>
OutDir == Out \o <<"/">> \o Dir
OutDirSlash == OutDir \o <<"/">>
DotOut == <<".", "/">> \o Out
Destinations == {Out, OutDir, OutDirSlash, DotOut}
ExtraTokens == {<<"-", "v">>, <<"-", "q">>}
ExtraInputs == {NoArgs} \cup SeqsUpTo(ExtraTokens, MaxExtra)
InterpreterInputs == {None, << >>, BinPython3}
\* the exit statuses of the tool
ExitStatuses == {0, 1, 2}

\* line 110 is entered: the resolver is called with python_executable
BuildCall ==
    /\ bpc = "idle"
    /\ rpc = "idle"
    /\ \E pkg \in Packages, dest \in Destinations,
          interp \in InterpreterInputs, extra \in ExtraInputs :
            /\ package' = pkg
            /\ destination' = dest
            /\ python_executable' = interp
            /\ extra_pip_args' = extra
            /\ explicit' = interp
    /\ rpc' = "entered"
    /\ bpc' = "resolve"
    /\ UNCHANGED <<executable, candidates, idx, probes, rresult, rmessage>>
    /\ UNCHANGED <<interpreter, cmd, runs, exitStatus, bresult, berror>>
    /\ UNCHANGED envVars

\* the RuntimeError of the resolver leaves the builder
BuildResolveRaised ==
    /\ bpc = "resolve"
    /\ rpc = "raised"
    /\ bpc' = "raised"
    /\ berror' = "RuntimeError"
    /\ UNCHANGED <<package, destination, python_executable, extra_pip_args,
                   interpreter, cmd, runs, exitStatus, bresult>>
    /\ UNCHANGED <<envVars, resolveVars>>

\* the resolver returned: interpreter is bound and the directory is made
BuildMkdir ==
    /\ bpc = "resolve"
    /\ rpc = "returned"
    /\ interpreter' = rresult
    /\ LET made == MkdirParents(PathParts(destination), dirs)
       IN /\ dirs' = made.dirs
          /\ berror' = made.error
          /\ bpc' = IF made.error = "" THEN "cmd" ELSE "raised"
    /\ UNCHANGED <<package, destination, python_executable, extra_pip_args,
                   cmd, runs, exitStatus, bresult>>
    /\ UNCHANGED <<fs, searchPath, frozen, sysExecutable, regFiles, writable>>
    /\ UNCHANGED resolveVars

\* cmd is built
BuildCmd ==
    /\ bpc = "cmd"
    /\ cmd' = BuildCommand(interpreter, package, destination, extra_pip_args)
    /\ bpc' = "run"
    /\ UNCHANGED <<package, destination, python_executable, extra_pip_args,
                   interpreter, runs, exitStatus, bresult, berror>>
    /\ UNCHANGED <<envVars, resolveVars>>

\* mutant of BuildRun: a failed run is tried once more before giving up
BuildRun_Retry ==
    /\ bpc = "run"
    /\ IF ~Exists(cmd[1])
       THEN /\ runs' = Append(runs, cmd)
            /\ bpc' = "raised"
            /\ berror' = "FileNotFoundError"
            /\ UNCHANGED <<bresult, exitStatus>>
       ELSE \E first \in ExitStatuses, second \in ExitStatuses :
                IF first = 0
                THEN /\ runs' = Append(runs, cmd)
                     /\ exitStatus' = first
                     /\ bpc' = "returned"
                     /\ bresult' = interpreter
                     /\ berror' = berror
                ELSE /\ runs' = runs \o <<cmd, cmd>>
                     /\ exitStatus' = second
                     /\ IF second = 0
                        THEN /\ bpc' = "returned"
                             /\ bresult' = interpreter
                             /\ berror' = berror
                        ELSE /\ bpc' = "raised"
                             /\ bresult' = bresult
                             /\ berror' = "CalledProcessError"
    /\ UNCHANGED <<package, destination, python_executable, extra_pip_args,
                   interpreter, cmd>>
    /\ UNCHANGED <<envVars, resolveVars>>

\* subprocess.run(cmd, check=True) and the return: a program that does not
\* exist cannot be started; one that exists runs and exits with some status
BuildRun ==
    /\ bpc = "run"
    /\ runs' = Append(runs, cmd)
    /\ IF ~Exists(cmd[1])
       THEN /\ bpc' = "raised"
            /\ berror' = "FileNotFoundError"
            /\ UNCHANGED <<bresult, exitStatus>>
       ELSE \E status \in ExitStatuses :
                /\ exitStatus' = status
                /\ IF status = 0
                   THEN /\ bpc' = "returned"
                        /\ bresult' = interpreter
                        /\ berror' = berror
                   ELSE /\ bpc' = "raised"
                        /\ bresult' = bresult
                        /\ berror' = "CalledProcessError"
    /\ UNCHANGED <<package, destination, python_executable, extra_pip_args,
                   interpreter, cmd>>
    /\ UNCHANGED <<envVars, resolveVars>>

\* the directory trees below the working directory the builder may meet
Trees ==
    {[dirs |-> {}, regFiles |-> {}],
     [dirs |-> {<<Out>>}, regFiles |-> {}],
     [dirs |-> {<<Out>>, <<Out, Dir>>}, regFiles |-> {}],
     [dirs |-> {}, regFiles |-> {<<Out>>}],
     [dirs |-> {<<Out>>}, regFiles |-> {<<Out, Dir>>}]}

\* the builder, in the environments of a frozen or plain installation
Init ==
    /\ fs \in SUBSET {BinPython3, OptLpm}
    /\ searchPath = <<BinDir>>
    /\ frozen \in BOOLEAN
    /\ sysExecutable \in {OptLpm, BinPython3}
    /\ \E tree \in Trees : dirs = tree.dirs /\ regFiles = tree.regFiles
    /\ writable \in BOOLEAN
    /\ ResolveLocalsInit
    /\ BuildLocalsInit

Next ==
    \/ BuildCall
    \/ ResolveSteps
    \/ BuildResolveRaised
    \/ BuildMkdir
    \/ BuildCmd
    \/ BuildRun

Spec == Init /\ [][Next]_vars

(***************************************************************************)
(* The properties.  They are stated over the environment and the results,  *)
(* with their own reading of "named like python", not the resolver's.      *)
(***************************************************************************)
\* the name begins with the six letters p y t h o n
NamedPython(name) ==
    /\ Len(name) >= 6
    /\ name[1] = "p" /\ name[2] = "y" /\ name[3] = "t"
    /\ name[4] = "h" /\ name[5] = "o" /\ name[6] = "n"

\* p is the launcher that must not be used: the running executable of a
\* frozen process, not named like python
ExcludedLauncher(p) ==
    /\ p = sysExecutable
    /\ frozen
    /\ ~NamedPython(Basename(p))

\* the candidate passes all three checks of the search
Survives(c) == Truthy(c) /\ c \in fs /\ ~ExcludedLauncher(c)

\* the resolver has finished
ResolveDone == rpc \in {"returned", "raised"}

\* the text None, None
NoneNone == <<"N", "o", "n", "e", ",", " ", "N", "o", "n", "e">>

\* C1 as stated: whatever the argument, a path the resolver returns exists on
\* disk and is not the excluded frozen launcher
C1_ReturnedPathAlwaysExists ==
    rpc = "returned" => rresult \in fs /\ ~ExcludedLauncher(rresult)

\* C1 amended: when no explicit argument is given (absent or empty), a path
\* the resolver returns exists on disk and is not the excluded frozen launcher
C1_SearchedPathExists ==
    (rpc = "returned" /\ ~Truthy(explicit))
        => rresult \in fs /\ ~ExcludedLauncher(rresult)

\* the launcher of a frozen process exists and was passed over for another path
C1_Witness ==
    /\ rpc = "returned"
    /\ ~Truthy(explicit)
    /\ sysExecutable \in fs
    /\ ExcludedLauncher(sysExecutable)
    /\ rresult \in fs
    /\ rresult # sysExecutable

\* C2: a non-empty explicit argument is returned unchanged, with no lookup, no
\* existence check and no failure, whatever the environment
C2_ExplicitReturnedVerbatim ==
    Truthy(explicit) =>
        /\ rpc \in {"entered", "returned"}
        /\ probes = << >>
        /\ candidates = << >>
        /\ rmessage = None
        /\ rpc = "returned" => rresult = explicit

\* an explicit path that does not exist was returned in a frozen process
C2_Witness ==
    /\ rpc = "returned"
    /\ Truthy(explicit)
    /\ explicit \notin fs
    /\ frozen
    /\ rresult = explicit

\* C3: frozen, no explicit argument, the running executable exists and is not
\* named like python: the resolver never returns it, returns the python3
\* lookup if there is one, else the python lookup, and fails only if neither
C3_FrozenLauncherSkipped ==
    (/\ ResolveDone
     /\ ~Truthy(explicit)
     /\ frozen
     /\ Truthy(sysExecutable)
     /\ sysExecutable \in fs
     /\ ~NamedPython(Basename(sysExecutable)))
        => /\ rresult # sysExecutable
           /\ IF Which(Python3Name) # None
              THEN rpc = "returned" /\ rresult = Which(Python3Name)
              ELSE IF Which(PythonName) # None
              THEN rpc = "returned" /\ rresult = Which(PythonName)
              ELSE rpc = "raised"

\* the launcher whose name contains python was skipped for the python on PATH
C3_Witness ==
    /\ rpc = "returned"
    /\ ~Truthy(explicit)
    /\ frozen
    /\ sysExecutable = OptLpmPy
    /\ sysExecutable \in fs
    /\ Which(Python3Name) = None
    /\ rresult = Which(PythonName)

\* the positions of the two PATH lookups in candidates
PathPositions == {j \in 1..Len(candidates) : j > Len(candidates) - 2}

\* C4: a candidate the loop passed over was empty or did not exist, unless it
\* is the running executable of a frozen process: a PATH lookup that exists is
\* never passed over, and outside a frozen process an existing running
\* executable is returned whatever its name
C4_HeuristicOnlyRejectsFrozenSelf ==
    /\ \A j \in 1..Len(candidates) :
          (j < idx /\ (~frozen \/ j \in PathPositions))
              => ~(Truthy(candidates[j]) /\ candidates[j] \in fs)
    /\ (/\ ResolveDone
        /\ ~Truthy(explicit)
        /\ ~frozen
        /\ Truthy(sysExecutable)
        /\ sysExecutable \in fs)
           => rpc = "returned" /\ rresult = sysExecutable

\* outside a frozen process the running executable lpm was returned
C4_Witness ==
    /\ rpc = "returned"
    /\ ~Truthy(explicit)
    /\ ~frozen
    /\ sysExecutable = OptLpm
    /\ rresult = OptLpm

\* the running executable does not exist and PATH holds no python3 or python
C5_NothingFound ==
    /\ ResolveDone
    /\ ~Truthy(explicit)
    /\ ~(Truthy(sysExecutable) /\ sysExecutable \in fs)
    /\ Which(Python3Name) = None
    /\ Which(PythonName) = None

\* C5 as stated: then the resolver fails and the message lists three
\* candidates: the running executable and the two lookups
C5_MessageListsAllThree ==
    C5_NothingFound =>
        /\ rpc = "raised"
        /\ rmessage.searched =
              Repr(sysExecutable) \o CommaSpace \o NoneNone

\* C5 amended: then the resolver fails and the message lists the two PATH
\* lookups only (None, None); the running executable is listed, first and in
\* quotes, only in a failure in which it exists
C5_MessageListsCandidates ==
    /\ C5_NothingFound =>
          /\ rpc = "raised"
          /\ rmessage.text = TriedPrefix
          /\ rmessage.searched = NoneNone
    /\ (rpc = "raised" /\ Truthy(sysExecutable) /\ sysExecutable \in fs) =>
          rmessage.searched =
              <<"'">> \o sysExecutable \o <<"'">> \o CommaSpace \o NoneNone

\* the resolver failed with a running executable that does not exist
C5_Witness ==
    /\ rpc = "raised"
    /\ Truthy(sysExecutable)
    /\ sysExecutable \notin fs
    /\ candidates = <<None, None>>
    /\ rmessage.searched = NoneNone

\* the directory of the destination and all its parents exist
DestinationExists ==
    \A k \in 1..Len(PathParts(destination)) :
        SubSeq(PathParts(destination), 1, k) \in dirs

\* a regular file lies on the way to the destination
FileInTheWay ==
    \E k \in 1..Len(PathParts(destination)) :
        SubSeq(PathParts(destination), 1, k) \in regFiles

\* C6, the states: the tool is run only after the resolver returned and the
\* destination exists with its parents; making the directory fails only when
\* it does not exist yet and a regular file lies in the way or the process
\* may not write; a failed resolution runs nothing
C6_OrderInvariant ==
    /\ (bpc \in {"cmd", "run", "returned"} \/ runs # << >>) =>
          /\ rpc = "returned"
          /\ interpreter = rresult
          /\ DestinationExists
    /\ (bpc = "raised" /\ runs = << >> /\ berror # "RuntimeError") =>
          /\ rpc = "returned"
          /\ FileInTheWay \/ ~writable
          /\ ~DestinationExists
    /\ rpc = "raised" => runs = << >> /\ cmd = << >>

\* C6, the steps: no step before or during resolution, and none after a
\* failed one, creates a directory
C6_NoDirectoryBeforeResolution ==
    (rpc # "returned" \/ bpc \in {"cmd", "run", "returned", "raised"})
        => dirs' = dirs

\* C6: resolve, then ensure the destination, then run the tool
C6_ResolveThenMkdirThenRun ==
    []C6_OrderInvariant /\ [][C6_NoDirectoryBeforeResolution]_vars

\* the tool ran for out/dir/ with both directories in place
C6_Witness ==
    /\ runs # << >>
    /\ destination = OutDirSlash
    /\ {<<Out>>, <<Out, Dir>>} \subseteq dirs
    /\ python_executable = None

\* C7: the tool is run at most once; a non-zero exit raises
\* CalledProcessError and returns nothing; exit 0 returns the resolved
\* interpreter, the first token of the command
C7_OneRunExitDecides ==
    /\ Len(runs) <= 1
    /\ exitStatus \notin {-1, 0} =>
          /\ bpc = "raised"
          /\ berror = "CalledProcessError"
          /\ bresult = None
    /\ exitStatus = 0 =>
          /\ bpc = "returned"
          /\ berror = ""
          /\ bresult = rresult
          /\ bresult = runs[1][1]
    /\ bpc = "returned" => exitStatus = 0
    /\ berror = "CalledProcessError" => exitStatus \notin {-1, 0}

\* the tool exited with status 1 and the builder raised
C7_Witness ==
    /\ exitStatus = 1
    /\ bpc = "raised"
    /\ berror = "CalledProcessError"
    /\ Len(runs) = 1

\* the extra arguments as the command must carry them
ExtraGiven == IF extra_pip_args = NoArgs THEN << >> ELSE extra_pip_args

\* C8 as stated: the command is the fixed tokens with the destination as it
\* was given, then the extra arguments
C8_CommandHasDestinationVerbatim ==
    cmd # << >> =>
        cmd = <<interpreter, DashM, Pip, Wheel, package, NoDeps, DashW, destination>>
              \o ExtraGiven

\* C8 amended: the command is interpreter, -m, pip, wheel, package,
\* --no-deps, -w, then the destination as pathlib writes it (out for ./out,
\* out/dir for out/dir/), then the extra arguments unchanged and in order
C8_CommandHasNormalisedDestination ==
    cmd # << >> =>
        /\ SubSeq(cmd, 1, 7) = <<interpreter, DashM, Pip, Wheel, package, NoDeps, DashW>>
        /\ destination \in {Out, DotOut} => cmd[8] = Out
        /\ destination \in {OutDir, OutDirSlash} => cmd[8] = OutDir
        /\ SubSeq(cmd, 9, Len(cmd)) = ExtraGiven
        /\ Len(cmd) = 8 + Len(ExtraGiven)

\* a command with two different extra arguments behind the eight fixed tokens
C8_Witness ==
    /\ Len(cmd) = 10
    /\ cmd[9] # cmd[10]
    /\ extra_pip_args = <<cmd[9], cmd[10]>>
    /\ destination = OutDirSlash

\* C9 as stated: the builder fails with CalledProcessError or RuntimeError only
C9_TwoErrorKindsOnly ==
    bpc = "raised" => berror \in {"CalledProcessError", "RuntimeError"}

\* C9 amended: the builder fails with RuntimeError (the resolver failed),
\* CalledProcessError (the tool exited non-zero), FileExistsError or
\* NotADirectoryError (a regular file lies on the way to the destination),
\* PermissionError (the destination is missing and may not be created), or
\* FileNotFoundError (the interpreter given does not exist)
C9_ErrorKinds ==
    bpc = "raised" =>
        \/ berror = "RuntimeError" /\ rpc = "raised" /\ runs = << >>
        \/ berror = "CalledProcessError" /\ exitStatus \notin {-1, 0}
        \/ /\ berror \in {"FileExistsError", "NotADirectoryError"}
           /\ FileInTheWay
           /\ runs = << >>
        \/ /\ berror = "PermissionError"
           /\ ~writable
           /\ ~DestinationExists
           /\ runs = << >>
        \/ /\ berror = "FileNotFoundError"
           /\ Len(runs) = 1
           /\ Truthy(python_executable)
           /\ python_executable \notin fs

\* the builder failed to start an explicit interpreter that does not exist
C9_Witness ==
    /\ bpc = "raised"
    /\ berror = "FileNotFoundError"
    /\ python_executable = BinPython3

\* the candidates in their order of priority
PriorityOrder == <<sysExecutable, Which(Python3Name), Which(PythonName)>>

\* C10: with no explicit argument the resolver returns the first of the
\* running executable, the python3 lookup and the python lookup that passes
\* the checks, and fails only if none does
C10_FirstSurvivorInPriorityOrder ==
    (ResolveDone /\ ~Truthy(explicit)) =>
        LET alive == {i \in 1..3 : Survives(PriorityOrder[i])}
        IN IF alive = {} THEN rpc = "raised"
           ELSE /\ rpc = "returned"
                /\ \E i \in alive :
                      /\ \A j \in alive : i <= j
                      /\ rresult = PriorityOrder[i]

\* python3 and python are both on PATH, in different directories, and the
\* python3 one was returned because the running executable does not exist
C10_Witness ==
    /\ rpc = "returned"
    /\ ~Truthy(explicit)
    /\ Truthy(sysExecutable)
    /\ sysExecutable \notin fs
    /\ Which(Python3Name) = OptPython3
    /\ Which(PythonName) = BinPython
    /\ rresult = OptPython3

=============================================================================
